---- MODULE Spec2Model ----
(***************************************************************************)
(* The mongodb instrumentation of the APM agent (lib/instrumentation/      *)
(* modules/mongodb.js): the installation gate, the choice between the      *)
(* command-monitoring listeners and the collection-API wrappers, the       *)
(* active-span table of the listeners, and the wrapped collection call.    *)
(***************************************************************************)
EXTENDS Integers, Sequences, FiniteSets, TLC

(***************************************************************************)
(* Bounds of the model.                                                    *)
(***************************************************************************)
\* spans the agent grants in one run
MaxSpans == 2
\* clock steps in one run
MaxClock == 1
\* calls of wrapped collection methods in one run
MaxCalls == 2
\* times the driver invokes the callback of one call
MaxCallbacks == 2

(***************************************************************************)
(* JavaScript values: a tag (typeof) and a payload.                        *)
(***************************************************************************)
Undefined == [t |-> "undefined"]
Str(s) == [t |-> "string", v |-> s]
Num(n) == [t |-> "number", n |-> n]

TypeOf(x) == x.t

\* ToBoolean: undefined, '' and 0 are falsy
Truthy(x) ==
  CASE x.t = "undefined" -> FALSE
    [] x.t = "string" -> x.v # <<>>
    [] x.t = "number" -> x.n # 0
    [] OTHER -> TRUE

\* a || b
Or(a, b) == IF Truthy(a) THEN a ELSE b

(***************************************************************************)
(* Constants of the module.                                                *)
(***************************************************************************)
Digits == {"0", "1", "2", "3", "4", "5", "6", "7", "8", "9"}

COLLECTION_METHODS ==
  {"findOne", "insertOne", "insertMany", "updateOne", "updateMany",
   "replaceOne", "deleteOne", "deleteMany", "bulkWrite"}

\* span._timer.start is in microseconds, event.duration in milliseconds
MicrosPerMilli == 1000

\* HOSTNAME_PORT_RE = /^(.+):(\d+)$/ applied to a string given as its
\* characters.  (.+) is greedy, and the port admits no colon, so the colon
\* of a match is the last colon of the string.
HOSTNAME_PORT_RE(s) ==
  LET colons == {i \in 2..(Len(s) - 1) :
                   /\ s[i] = ":"
                   /\ \A j \in (i + 1)..Len(s) : s[j] \in Digits}
  IN IF colons = {}
     THEN [ok |-> FALSE, host |-> <<>>, port |-> <<>>]
     ELSE LET i == CHOOSE c \in colons : \A d \in colons : d <= c
          IN [ok |-> TRUE,
              host |-> SubSeq(s, 1, i - 1),
              port |-> SubSeq(s, i + 1, Len(s))]

\* semver order on <<major, minor, patch>>
VersionLt(v, w) ==
  \/ v[1] < w[1]
  \/ v[1] = w[1] /\ v[2] < w[2]
  \/ v[1] = w[1] /\ v[2] = w[2] /\ v[3] < w[3]

\* the range without its upper end
satisfies_NoUpperBound(version) == ~VersionLt(version, <<3, 3, 0>>)

\* semver.satisfies(version, '>=3.3 <6.0')
satisfies(version) ==
  /\ ~VersionLt(version, <<3, 3, 0>>)
  /\ VersionLt(version, <<6, 0, 0>>)

(***************************************************************************)
(* Inputs.                                                                 *)
(***************************************************************************)
Versions == {<<2, 9, 0>>, <<3, 2, 9>>, <<3, 3, 0>>, <<6, 0, 0>>}

RequestIds == {1, 2}

Durations == {1, 3}

\* microseconds between two readings of the clock
ClockStep == MicrosPerMilli

\* the error the underlying operation raises, the result it produces
Errors == {"E1"}
Results == {"R1"}

\* the connection URL of the client that owns the collection handle
ClientUrls == <<Str(<<"m", ":", "/", "/", "h", ":", "2", "7">>), Str(<<"h", "-", "2", "7">>)>>

\* the collection methods the application calls
CalledMethods == {"insertOne"}

\* the methods of the driver's collection handle (typeof coll[m] === 'function')
DriverCollectionMethods == COLLECTION_METHODS \cup {"find", "countDocuments"}

\* CommandStartedEvents of the driver, without their requestId
StartedEvents ==
  << [databaseName |-> "test", commandName |-> "insert",
      command |-> [insert |-> Str("cats")],
      address |-> Str(<<"h", ":", "2", "7">>), connectionId |-> Num(1)],
     [databaseName |-> "admin", commandName |-> "ping",
      command |-> [ping |-> Num(1)],
      address |-> Undefined, connectionId |-> Str(<<":", ":", "1", ":", "2", "7">>)],
     [databaseName |-> "test", commandName |-> "find",
      command |-> [find |-> Str("dogs"), batchSize |-> Num(1)],
      address |-> Str(<<"n", "o", "-", "a">>), connectionId |-> Str(<<"h", ":", "2", "7">>)],
     [databaseName |-> "test", commandName |-> "count",
      command |-> [count |-> Str("cats")],
      address |-> Undefined, connectionId |-> Num(1)] >>

VARIABLES
  opts,         \* the arguments of module.exports: the driver's surface, version, enabled
  installed,    \* module.exports has returned (it returns the module it was given)
  listeners,    \* <<event, handler>> registered on the listener of mongodb.instrument()
  dbWrapped,    \* MongoClient.prototype.db has been replaced by wrappedDb
  logged,       \* levels at which agent.logger was called by the module
  activeSpans,  \* the Map from requestId to span
  spans,        \* the spans ins.createSpan has returned, in creation order
  now,          \* the agent's clock, microseconds
  commands,     \* driver side: the command of each requestId
  calls,        \* the invocations of wrappedCollectionApi, in call order
  thrown        \* a listener of this module has thrown into the driver's emitter

vars == <<opts, installed, listeners, dbWrapped, logged, activeSpans, spans, now, commands,
          calls, thrown>>

(***************************************************************************)
(* The tracing collaborator: createSpan and the Span methods.              *)
(***************************************************************************)
NoDestination == [set |-> FALSE, host |-> <<>>, port |-> <<>>]

\* ins.createSpan(name, type, subtype, action, {exitSpan}): the new span
\* started at the clock reading start
NewSpan(name, type, subtype, action, start, owner) ==
  [name |-> name, type |-> type, subtype |-> subtype, action |-> action,
   start |-> start, ended |-> 0, endTime |-> -1,
   destination |-> NoDestination,
   db |-> [set |-> FALSE, type |-> "", instance |-> ""],
   owner |-> owner]

\* span.end(endTime): one more invocation of end
SpanEnd(heap, id, endTime) ==
  [heap EXCEPT ![id].ended = @ + 1, ![id].endTime = endTime]

\* span.setDbContext(ctx)
setDbContext(heap, id, ctx) ==
  [heap EXCEPT ![id].db = [set |-> TRUE, type |-> ctx.type, instance |-> ctx.instance]]

\* span._setDestinationContext(dest)
_setDestinationContext(heap, id, dest) ==
  [heap EXCEPT ![id].destination = [set |-> TRUE, host |-> dest.host, port |-> dest.port]]

\* getDBDestination(host, port) of ../context
getDBDestination(host, port) == [host |-> host, port |-> port]

\* new URL(address) for a string given as its characters: a scheme up to the
\* first colon, then "//", a host and, after the host's last colon, a port of
\* digits.  ok is FALSE where the constructor throws (no scheme).
URL(address) ==
  LET colons == {i \in 2..Len(address) : address[i] = ":"}
      i == CHOOSE c \in colons : \A d \in colons : c <= d
      slashes == /\ Len(address) >= i + 2
                 /\ address[i + 1] = "/"
                 /\ address[i + 2] = "/"
      authority == SubSeq(address, i + 3, Len(address))
      ports == {j \in 1..Len(authority) :
                  /\ authority[j] = ":"
                  /\ \A k \in (j + 1)..Len(authority) : authority[k] \in Digits}
      j == CHOOSE p \in ports : TRUE
  IN IF colons = {}
     THEN [ok |-> FALSE, hostname |-> <<>>, port |-> <<>>]
     ELSE IF ~slashes
     THEN [ok |-> TRUE, hostname |-> <<>>, port |-> <<>>]
     ELSE IF ports = {}
     THEN [ok |-> TRUE, hostname |-> authority, port |-> <<>>]
     ELSE [ok |-> TRUE, hostname |-> SubSeq(authority, 1, j - 1),
           port |-> SubSeq(authority, j + 1, Len(authority))]

(***************************************************************************)
(* Map operations.                                                         *)
(***************************************************************************)
MapHas(m, k) == k \in DOMAIN m
MapSet(m, k, v) == [x \in (DOMAIN m) \cup {k} |-> IF x = k THEN v ELSE m[x]]
MapDelete(m, k) == [x \in (DOMAIN m) \ {k} |-> m[x]]

(***************************************************************************)
(* Init: nothing installed; the driver and the options are the inputs.     *)
(* The driver has instrument() and MongoClient (3.x), MongoClient alone    *)
(* (4.x and later), or neither.                                            *)
(***************************************************************************)
Surfaces ==
  {[instrument |-> TRUE, MongoClient |-> TRUE],
   [instrument |-> FALSE, MongoClient |-> TRUE],
   [instrument |-> FALSE, MongoClient |-> FALSE]}

Init ==
  /\ opts \in [version : Versions, enabled : BOOLEAN, mongodb : Surfaces]
  /\ installed = FALSE
  /\ listeners = {}
  /\ dbWrapped = FALSE
  /\ logged = {}
  /\ activeSpans = <<>>
  /\ spans = <<>>
  /\ now = 0
  /\ commands = [r \in RequestIds |-> "idle"]
  /\ calls = <<>>
  /\ thrown = FALSE

(***************************************************************************)
(* module.exports = (mongodb, agent, { version, enabled }) => ...          *)
(***************************************************************************)
\* if (mongodb.instrument): the handlers registered on the listener
Registrations_SucceededOnly(mongodb) ==
  IF mongodb.instrument
  THEN {<<"started", "onStart">>, <<"succeeded", "onEnd">>}
  ELSE {}

Registrations(mongodb) ==
  IF mongodb.instrument
  THEN {<<"started", "onStart">>, <<"succeeded", "onEnd">>, <<"failed", "onEnd">>}
  ELSE {}

\* else if (mongodb.MongoClient): shimmer.wrap(mongodb.MongoClient.prototype, 'db', wrapDb)
WrapsDb_NoElse(mongodb) == mongodb.MongoClient

WrapsDb(mongodb) == ~mongodb.instrument /\ mongodb.MongoClient

\* else: agent.logger.warn('could not instrument mongodb@%s', version)
Warns(mongodb) == ~mongodb.instrument /\ ~mongodb.MongoClient

Install ==
  /\ ~installed
  /\ installed' = TRUE
  /\ IF ~opts.enabled
     THEN UNCHANGED <<listeners, dbWrapped, logged>>
     ELSE IF ~satisfies(opts.version)
     THEN /\ logged' = logged \cup {"debug"}
          /\ UNCHANGED <<listeners, dbWrapped>>
     ELSE /\ listeners' = Registrations(opts.mongodb)
          /\ dbWrapped' = WrapsDb(opts.mongodb)
          /\ logged' = IF Warns(opts.mongodb) THEN logged \cup {"warn"} ELSE logged
  /\ UNCHANGED <<opts, activeSpans, spans, now, commands, calls, thrown>>

(***************************************************************************)
(* The command-monitoring listeners.                                       *)
(***************************************************************************)
\* collectionFor without the typeof test: the value of the command's first
\* key goes into the name whatever its type
collectionFor_NoTypeCheck(event) ==
  LET collection == IF event.commandName \in DOMAIN event.command
                    THEN event.command[event.commandName]
                    ELSE Undefined
  IN IF TypeOf(collection) = "string" THEN collection.v ELSE ToString(collection.n)

collectionFor(event) ==
  LET collection == IF event.commandName \in DOMAIN event.command
                    THEN event.command[event.commandName]
                    ELSE Undefined
  IN IF TypeOf(collection) = "string" THEN collection.v ELSE "$cmd"

\* [a, b, c].join('.')
Join3(a, b, c) == a \o "." \o b \o "." \o c

\* onStart that stores what createSpan returned before testing it
onStart_SetBeforeCheck(event, granted) ==
  LET name == Join3(event.databaseName, collectionFor(event), event.commandName)
      span == IF granted THEN Len(spans) + 1 ELSE 0
      heap0 == Append(spans, NewSpan(name, "db", "mongodb", event.commandName, now',
                                     [kind |-> "event", id |-> event.requestId]))
      address == Or(event.address, event.connectionId)
      match == IF Truthy(address) /\ TypeOf(address) = "string"
               THEN HOSTNAME_PORT_RE(address.v)
               ELSE [ok |-> FALSE, host |-> <<>>, port |-> <<>>]
      heap1 == IF match.ok
               THEN _setDestinationContext(heap0, span, getDBDestination(match.host, match.port))
               ELSE heap0
      dbContext == [type |-> "mongodb", instance |-> event.databaseName]
  IN /\ activeSpans' = MapSet(activeSpans, event.requestId, span)
     /\ IF span # 0
        THEN /\ spans' = setDbContext(heap1, span, dbContext)
             /\ logged' = IF match.ok THEN logged ELSE logged \cup {"trace"}
             /\ UNCHANGED thrown
        ELSE UNCHANGED <<spans, logged, thrown>>

\* onStart that gives up on the span's contexts when the address does not
\* resolve: the db context is set only after a match
onStart_NoMatchReturns(event, granted) ==
  LET name == Join3(event.databaseName, collectionFor(event), event.commandName)
      span == IF granted THEN Len(spans) + 1 ELSE 0
      heap0 == Append(spans, NewSpan(name, "db", "mongodb", event.commandName, now',
                                     [kind |-> "event", id |-> event.requestId]))
      address == Or(event.address, event.connectionId)
      match == IF Truthy(address) /\ TypeOf(address) = "string"
               THEN HOSTNAME_PORT_RE(address.v)
               ELSE [ok |-> FALSE, host |-> <<>>, port |-> <<>>]
      heap1 == IF match.ok
               THEN _setDestinationContext(heap0, span, getDBDestination(match.host, match.port))
               ELSE heap0
      dbContext == [type |-> "mongodb", instance |-> event.databaseName]
  IN IF span # 0
     THEN /\ activeSpans' = MapSet(activeSpans, event.requestId, span)
          /\ spans' = IF match.ok THEN setDbContext(heap1, span, dbContext) ELSE heap1
          /\ logged' = IF match.ok THEN logged ELSE logged \cup {"trace"}
          /\ UNCHANGED thrown
     ELSE UNCHANGED <<activeSpans, spans, logged, thrown>>

\* onStart that keeps one span at a time: the new entry replaces the table
onStart_SingleSlot(event, granted) ==
  LET name == Join3(event.databaseName, collectionFor(event), event.commandName)
      span == IF granted THEN Len(spans) + 1 ELSE 0
      heap0 == Append(spans, NewSpan(name, "db", "mongodb", event.commandName, now',
                                     [kind |-> "event", id |-> event.requestId]))
      address == Or(event.address, event.connectionId)
      match == IF Truthy(address) /\ TypeOf(address) = "string"
               THEN HOSTNAME_PORT_RE(address.v)
               ELSE [ok |-> FALSE, host |-> <<>>, port |-> <<>>]
      heap1 == IF match.ok
               THEN _setDestinationContext(heap0, span, getDBDestination(match.host, match.port))
               ELSE heap0
      dbContext == [type |-> "mongodb", instance |-> event.databaseName]
  IN IF span # 0
     THEN /\ activeSpans' = MapSet(<<>>, event.requestId, span)
          /\ spans' = setDbContext(heap1, span, dbContext)
          /\ logged' = IF match.ok THEN logged ELSE logged \cup {"trace"}
          /\ UNCHANGED thrown
     ELSE UNCHANGED <<activeSpans, spans, logged, thrown>>

\* onStart(event); granted: ins.createSpan returns a span rather than null
onStart(event, granted) ==
  LET name == Join3(event.databaseName, collectionFor(event), event.commandName)
      span == IF granted THEN Len(spans) + 1 ELSE 0
      heap0 == Append(spans, NewSpan(name, "db", "mongodb", event.commandName, now',
                                     [kind |-> "event", id |-> event.requestId]))
      address == Or(event.address, event.connectionId)
      match == IF Truthy(address) /\ TypeOf(address) = "string"
               THEN HOSTNAME_PORT_RE(address.v)
               ELSE [ok |-> FALSE, host |-> <<>>, port |-> <<>>]
      heap1 == IF match.ok
               THEN _setDestinationContext(heap0, span, getDBDestination(match.host, match.port))
               ELSE heap0
      dbContext == [type |-> "mongodb", instance |-> event.databaseName]
  IN IF span # 0
     THEN /\ activeSpans' = MapSet(activeSpans, event.requestId, span)
          /\ spans' = setDbContext(heap1, span, dbContext)
          /\ logged' = IF match.ok THEN logged ELSE logged \cup {"trace"}
          /\ UNCHANGED thrown
     ELSE UNCHANGED <<activeSpans, spans, logged, thrown>>

\* the time at which the event is handled, instead of start + duration
EndTimestamp_Now(span, event) == now'

\* the timestamp onEnd hands to span.end, in microseconds:
\* (span._timer.start / 1000) + event.duration milliseconds
EndTimestamp(span, event) == span.start + event.duration * MicrosPerMilli

\* onEnd that ends the span and leaves its entry in the table
onEnd_NoDelete(event) ==
  IF ~MapHas(activeSpans, event.requestId)
  THEN UNCHANGED <<activeSpans, spans, logged, thrown>>
  ELSE LET span == activeSpans[event.requestId]
       IN /\ spans' = SpanEnd(spans, span, EndTimestamp(spans[span], event))
          /\ UNCHANGED <<activeSpans, logged, thrown>>

\* onEnd that removes the entry and does not end its span
onEnd_DeleteOnly(event) ==
  IF ~MapHas(activeSpans, event.requestId)
  THEN UNCHANGED <<activeSpans, spans, logged, thrown>>
  ELSE /\ activeSpans' = MapDelete(activeSpans, event.requestId)
       /\ UNCHANGED <<spans, logged, thrown>>

\* onEnd without the has() guard: span is undefined for an unknown requestId
\* and span.end throws a TypeError
onEnd_NoHasCheck(event) ==
  IF ~MapHas(activeSpans, event.requestId)
  THEN /\ thrown' = TRUE
       /\ UNCHANGED <<activeSpans, spans, logged>>
  ELSE LET span == activeSpans[event.requestId]
       IN /\ activeSpans' = MapDelete(activeSpans, event.requestId)
          /\ spans' = SpanEnd(spans, span, EndTimestamp(spans[span], event))
          /\ UNCHANGED <<logged, thrown>>

\* onEnd that empties the table instead of deleting its own key
onEnd_Clear(event) ==
  IF ~MapHas(activeSpans, event.requestId)
  THEN UNCHANGED <<activeSpans, spans, logged, thrown>>
  ELSE LET span == activeSpans[event.requestId]
       IN /\ activeSpans' = <<>>
          /\ spans' = SpanEnd(spans, span, EndTimestamp(spans[span], event))
          /\ UNCHANGED <<logged, thrown>>

\* onEnd(event)
onEnd(event) ==
  IF ~MapHas(activeSpans, event.requestId)
  THEN UNCHANGED <<activeSpans, spans, logged, thrown>>
  ELSE LET span == activeSpans[event.requestId]
       IN /\ activeSpans' = MapDelete(activeSpans, event.requestId)
          /\ spans' = SpanEnd(spans, span, EndTimestamp(spans[span], event))
          /\ UNCHANGED <<logged, thrown>>

\* the handlers the listener calls for an event name
Handlers(name) == {l[2] : l \in {x \in listeners : x[1] = name}}

\* the clock readings at which the next event can be emitted
Times == {t \in {now, now + ClockStep} : t <= MaxClock * ClockStep}

\* The driver starts the command requestId and emits 'started' at time t.  A
\* requestId identifies one command from its 'started' to its terminal event.
DriverStarted(requestId, i, granted, t) ==
  /\ listeners # {}
  /\ commands[requestId] = "idle"
  /\ granted => Len(spans) < MaxSpans
  /\ now' = t
  /\ LET event == [requestId |-> requestId] @@ StartedEvents[i]
     IN IF "onStart" \in Handlers("started")
        THEN /\ onStart(event, granted)
             /\ commands' = [commands EXCEPT
                  ![requestId] = IF granted THEN "tracked" ELSE "untracked"]
        ELSE /\ UNCHANGED <<activeSpans, spans, logged, thrown>>
             /\ commands' = [commands EXCEPT ![requestId] = "untracked"]
  /\ UNCHANGED <<opts, installed, listeners, dbWrapped, calls>>

\* The driver emits 'succeeded' or 'failed' for requestId at time t: the
\* terminal event of a command in flight, or one that matches no command.
DriverEnded(requestId, outcome, duration, t) ==
  /\ listeners # {}
  /\ now' = t
  /\ LET event == [requestId |-> requestId, duration |-> duration]
     IN IF "onEnd" \in Handlers(outcome)
        THEN onEnd(event)
        ELSE UNCHANGED <<activeSpans, spans, logged, thrown>>
  /\ commands' = [commands EXCEPT ![requestId] = "idle"]
  /\ UNCHANGED <<opts, installed, listeners, dbWrapped, calls>>

(***************************************************************************)
(* The collection-API wrappers.                                            *)
(***************************************************************************)
\* a JavaScript object is truthy; a primitive by its value
Falsy(obj) == IF "t" \in DOMAIN obj THEN ~Truthy(obj) ELSE FALSE

\* _get(obj, path), the path given as its keys
RECURSIVE _get(_, _)
_get(obj, path) ==
  IF Falsy(obj) \/ path = <<>>
  THEN obj
  ELSE _get(obj[Head(path)], Tail(path))

\* the collection handle a method is called on (its `this`)
Collection(url) ==
  [s |-> [db |-> [s |-> [client |-> [s |-> [url |-> url]]]],
          namespace |-> [db |-> "test", collection |-> "cats"]]]

\* wrappedDb wraps the collection accessor of every db handle it returns, and
\* wrappedCollection these methods of every collection handle it returns
wrappedCollection ==
  IF dbWrapped
  THEN {methodName \in COLLECTION_METHODS : methodName \in DriverCollectionMethods}
  ELSE {}

\* the callback replaced whether or not a span was granted
OrigLast_Always(style, span) == IF style # "callback" THEN "none" ELSE "wrapper"

\* the last argument origApi.apply receives: the function substituted for the
\* caller's callback ("wrapper"), the caller's callback ("cb"), or an argument
\* that is no function and is left alone ("none")
OrigLast(style, span) ==
  IF style # "callback" THEN "none"
  ELSE IF span # 0 THEN "wrapper"
  ELSE "cb"

\* the state of an invocation of wrappedCollectionApi at its first return or await
NewCall(apiName, style, span, op, opOut, pc, ret, retVal, heap) ==
  [apiName |-> apiName, style |-> style, span |-> span,
   origCalls |-> 1, origThis |-> "this", origLast |-> OrigLast(style, span),
   op |-> op, opOut |-> opOut, pc |-> pc, ret |-> ret, retVal |-> retVal,
   endedAtSettle |-> IF ret = "pending" \/ span = 0 THEN -1 ELSE heap[span].ended,
   closed |-> IF pc = "done" /\ span # 0 /\ heap[span].ended > 0 THEN {"catch"} ELSE {},
   cbCalls |-> 0, cbArgs |-> [err |-> "", res |-> ""], cbOpen |-> FALSE]

\* wrappedCollectionApi up to its first return or await.  style: the last
\* argument is a function or not; granted: ins.createSpan returns a span;
\* sync: what origApi.apply does before it returns, "returns" or the error
\* it throws.
wrappedCollectionApi(apiName, style, granted, url, sync) ==
  LET this == Collection(url)
      db == this.s.db
      namespace == this.s.namespace
      name == Join3(namespace.db, namespace.collection, apiName)
      span == IF granted THEN Len(spans) + 1 ELSE 0
      heap0 == Append(spans, NewSpan(name, "db", "mongodb", apiName, now,
                                     [kind |-> "call", id |-> Len(calls) + 1]))
      heap1 == setDbContext(heap0, span, [type |-> "mongodb", instance |-> namespace.db])
      address == _get(db, <<"s", "client", "s", "url">>)
      url0 == IF Truthy(address) /\ TypeOf(address) = "string"
              THEN URL(address.v)
              ELSE [ok |-> FALSE, hostname |-> <<>>, port |-> <<>>]
      heap2 == IF Truthy(address) /\ url0.ok
               THEN _setDestinationContext(heap1, span,
                                           getDBDestination(url0.hostname, url0.port))
               ELSE heap1
      log == IF Truthy(address) /\ url0.ok THEN logged ELSE logged \cup {"trace"}
  IN IF span = 0
     THEN \* return origApi.apply(this, arguments)
          /\ calls' = Append(calls,
               IF sync # "returns"
               THEN NewCall(apiName, style, 0,
                            "threw", sync, "done", "rejected", sync, spans)
               ELSE IF style = "callback"
               THEN NewCall(apiName, style, 0,
                            "running", "", "done", "resolved", "undefined", spans)
               ELSE NewCall(apiName, style, 0,
                            "pending", "", "awaiting", "pending", "", spans))
          /\ UNCHANGED <<spans, logged>>
     ELSE IF style = "callback"
     THEN \* the last argument is replaced; return origApi.apply(this, arguments)
          /\ calls' = Append(calls,
               IF sync # "returns"
               THEN NewCall(apiName, style, span,
                            "threw", sync, "done", "rejected", sync, heap2)
               ELSE NewCall(apiName, style, span,
                            "running", "", "done", "resolved", "undefined", heap2))
          /\ spans' = heap2
          /\ logged' = log
     ELSE IF sync # "returns"
     THEN \* origApi.apply throws inside the try: catch (err) { span.end(); throw err }
          LET heap3 == SpanEnd(heap2, span, now)
          IN /\ calls' = Append(calls,
                  NewCall(apiName, style, span,
                          "threw", sync, "done", "rejected", sync, heap3))
             /\ spans' = heap3
             /\ logged' = log
     ELSE \* await origApi.apply(this, arguments)
          /\ calls' = Append(calls,
               NewCall(apiName, style, span,
                       "pending", "", "awaiting", "pending", "", heap2))
          /\ spans' = heap2
          /\ logged' = log

\* The application calls a wrapped collection method.
WrappedCall(apiName, style, granted, i, sync) ==
  /\ installed /\ opts.mongodb.MongoClient
  /\ apiName \in wrappedCollection
  /\ Len(calls) < MaxCalls
  /\ granted => Len(spans) < MaxSpans
  /\ wrappedCollectionApi(apiName, style, granted, ClientUrls[i], sync)
  /\ UNCHANGED <<opts, installed, listeners, dbWrapped, activeSpans, now, commands, thrown>>

\* The application calls a collection method that is not wrapped: the
\* driver's own method runs and nothing of this module does.
DirectCall(apiName) ==
  /\ installed /\ opts.mongodb.MongoClient
  /\ apiName \notin wrappedCollection
  /\ UNCHANGED vars

\* The driver settles the promise origApi returned.
OpSettle(c, outcome, out) ==
  /\ calls[c].op = "pending"
  /\ calls' = [calls EXCEPT ![c].op = outcome, ![c].opOut = out]
  /\ UNCHANGED <<opts, installed, listeners, dbWrapped, logged, activeSpans, spans, now,
                 commands, thrown>>

\* the wrapper without `return res`: the span is ended and the caller's
\* promise resolves with undefined
Resume_NoReturn(c) ==
  /\ calls[c].pc = "awaiting"
  /\ calls[c].op \in {"resolved", "rejected"}
  /\ LET span == calls[c].span
         heap == IF span # 0 THEN SpanEnd(spans, span, now) ELSE spans
     IN /\ spans' = heap
        /\ calls' = [calls EXCEPT
             ![c].pc = "done",
             ![c].ret = calls[c].op,
             ![c].retVal = IF span # 0 /\ calls[c].op = "resolved"
                           THEN "undefined" ELSE calls[c].opOut,
             ![c].endedAtSettle = IF span # 0 THEN heap[span].ended ELSE -1,
             ![c].closed = IF span = 0 THEN @
                           ELSE @ \cup {IF calls[c].op = "resolved" THEN "then" ELSE "catch"}]
  /\ UNCHANGED <<opts, installed, listeners, dbWrapped, logged, activeSpans, now, commands,
                 thrown>>

\* wrappedCollectionApi after its await: span.end() and return res, or
\* span.end() and throw err; without a span its promise follows origApi's.
Resume(c) ==
  /\ calls[c].pc = "awaiting"
  /\ calls[c].op \in {"resolved", "rejected"}
  /\ LET span == calls[c].span
         heap == IF span # 0 THEN SpanEnd(spans, span, now) ELSE spans
     IN /\ spans' = heap
        /\ calls' = [calls EXCEPT
             ![c].pc = "done",
             ![c].ret = calls[c].op,
             ![c].retVal = calls[c].opOut,
             ![c].endedAtSettle = IF span # 0 THEN heap[span].ended ELSE -1,
             ![c].closed = IF span = 0 THEN @
                           ELSE @ \cup {IF calls[c].op = "resolved" THEN "then" ELSE "catch"}]
  /\ UNCHANGED <<opts, installed, listeners, dbWrapped, logged, activeSpans, now, commands,
                 thrown>>

\* the substituted function with the two statements in the other order:
\* the caller's callback runs while the span is still open
substitutedCallback_CallbackFirst(heap, span, args) ==
  [heap |-> SpanEnd(heap, span, now), cbArgs |-> args, cbOpen |-> heap[span].ended = 0]

\* function () { span.end(); return cb.apply(null, arguments) }: the spans
\* after span.end(), the arguments cb receives, and whether span is still
\* open when cb is invoked
substitutedCallback(heap, span, args) ==
  LET heap1 == SpanEnd(heap, span, now)
  IN [heap |-> heap1, cbArgs |-> args, cbOpen |-> heap1[span].ended = 0]

\* The driver invokes the function it was given as last argument: the
\* substituted function (span.end(); return cb.apply(null, arguments)) or the
\* caller's own callback.
DriverCallback(c, args) ==
  /\ calls[c].style = "callback"
  /\ calls[c].op = "running"
  /\ calls[c].cbCalls < MaxCallbacks
  /\ LET span == calls[c].span
         substituted == calls[c].origLast = "wrapper"
         run == IF substituted
                THEN substitutedCallback(spans, span, args)
                ELSE [heap |-> spans, cbArgs |-> args, cbOpen |-> FALSE]
     IN /\ spans' = run.heap
        /\ calls' = [calls EXCEPT
             ![c].cbCalls = @ + 1,
             ![c].cbArgs = run.cbArgs,
             ![c].cbOpen = @ \/ (span # 0 /\ run.cbOpen),
             ![c].closed = IF substituted THEN @ \cup {"callback"} ELSE @]
  /\ UNCHANGED <<opts, installed, listeners, dbWrapped, logged, activeSpans, now, commands,
                 thrown>>

\* The driver is done with a callback-style operation: it invokes the
\* callback no more.
DriverFinish(c) ==
  /\ calls[c].style = "callback"
  /\ calls[c].op = "running"
  /\ calls' = [calls EXCEPT ![c].op = "finished"]
  /\ UNCHANGED <<opts, installed, listeners, dbWrapped, logged, activeSpans, spans, now,
                 commands, thrown>>

CallbackArgs == {[err |-> e, res |-> ""] : e \in Errors} \cup
                {[err |-> "null", res |-> r] : r \in Results}

Next ==
  \/ Install
  \/ \E r \in RequestIds, i \in 1..Len(StartedEvents), g \in BOOLEAN, t \in Times :
        DriverStarted(r, i, g, t)
  \/ \E r \in RequestIds, o \in {"succeeded", "failed"}, d \in Durations, t \in Times :
        DriverEnded(r, o, d, t)
  \/ \E m \in CalledMethods, s \in {"callback", "promise"}, g \in BOOLEAN,
        i \in 1..Len(ClientUrls), y \in {"returns"} \cup Errors : WrappedCall(m, s, g, i, y)
  \/ \E m \in CalledMethods : DirectCall(m)
  \/ \E c \in 1..Len(calls), r \in Results : OpSettle(c, "resolved", r)
  \/ \E c \in 1..Len(calls), e \in Errors : OpSettle(c, "rejected", e)
  \/ \E c \in 1..Len(calls) : Resume(c)
  \/ \E c \in 1..Len(calls), a \in CallbackArgs : DriverCallback(c, a)
  \/ \E c \in 1..Len(calls) : DriverFinish(c)

Spec == Init /\ [][Next]_vars

(***************************************************************************)
(* Commands that end without a terminal event.  An operation identifier is *)
(* unique only between its start and its end: once the driver has given up *)
(* a command (the connection dropped) it may number a later one the same.  *)
(***************************************************************************)
\* The driver gives up the command requestId: neither 'succeeded' nor
\* 'failed' is emitted for it, and no handler of this module runs.
DriverLost(requestId) ==
  /\ listeners # {}
  /\ commands[requestId] \in {"tracked", "untracked"}
  /\ commands' = [commands EXCEPT ![requestId] = "idle"]
  /\ UNCHANGED <<opts, installed, listeners, dbWrapped, logged, activeSpans, spans, now,
                 calls, thrown>>

NextReuse ==
  \/ Next
  \/ \E r \in RequestIds : DriverLost(r)

SpecReuse == Init /\ [][NextReuse]_vars

(***************************************************************************)
(* Properties.                                                             *)
(***************************************************************************)
\* the spans granted to 'started' events of requestId r
EventSpans(r) ==
  {i \in 1..Len(spans) : spans[i].owner = [kind |-> "event", id |-> r]}

\* the spans granted to the wrapped call c
CallSpans(c) ==
  {i \in 1..Len(spans) : spans[i].owner = [kind |-> "call", id |-> c]}

\* the range '>=3.3 <6.0' as the claims state it
InRange(version) ==
  /\ (version[1] > 3 \/ (version[1] = 3 /\ version[2] >= 3))
  /\ version[1] < 6

C1_State ==
  \A r \in RequestIds : commands[r] = "idle" =>
    /\ r \notin DOMAIN activeSpans
    /\ \A i \in EventSpans(r) : spans[i].ended = 1

C1_Step ==
  \A r \in RequestIds : commands[r] = "tracked" /\ commands'[r] = "idle" =>
    LET open == {i \in EventSpans(r) : spans[i].ended = 0}
    IN /\ Cardinality(open) = 1
       /\ \A i \in open : spans'[i].ended = 1
       /\ \A i \in (1..Len(spans)) \ open : spans'[i] = spans[i]
       /\ Len(spans') = Len(spans)
       /\ r \notin DOMAIN activeSpans'

\* C1: a 'started' event for r that is granted a span, followed by its
\* terminal event, leaves exactly one span of r open before the terminal
\* event and ends that span, and no other, exactly once; once the terminal
\* event is delivered the table holds no entry for r and every span of r has
\* been ended exactly once.
C1_StartThenEnd == []C1_State /\ [][C1_Step]_vars

C1_Witness ==
  \E r \in RequestIds :
    /\ commands[r] = "idle"
    /\ \E i \in EventSpans(r) : spans[i].ended = 1

\* C2: for every wrapped call that was granted a span, when the promise the
\* caller holds is rejected the span has been ended exactly once and the
\* rejection carries the error the operation raised; when the caller's
\* callback receives an error the span is no longer open.
C2_ErrorAfterEnd ==
  \A c \in 1..Len(calls) : calls[c].span # 0 =>
    /\ calls[c].ret = "rejected" =>
         /\ calls[c].endedAtSettle = 1
         /\ calls[c].retVal = calls[c].opOut
    /\ (calls[c].cbCalls > 0 /\ calls[c].cbArgs.err # "null") => ~calls[c].cbOpen

\* the underlying operation of call c will do nothing more
CallOver(c) ==
  \/ calls[c].op \in {"threw", "finished"}
  \/ calls[c].style = "promise" /\ calls[c].pc = "done"

\* C3: for every wrapped call that was granted a span, end() is never invoked
\* twice and never by two close paths, and once the underlying operation is
\* over exactly one close path has run and end() has been invoked exactly once.
C3_ClosedExactlyOnce ==
  \A c \in 1..Len(calls) : calls[c].span # 0 =>
    /\ spans[calls[c].span].ended <= 1
    /\ Cardinality(calls[c].closed) <= 1
    /\ CallOver(c) =>
         /\ spans[calls[c].span].ended = 1
         /\ Cardinality(calls[c].closed) = 1

C4_Step ==
  \/ /\ activeSpans' = activeSpans
     /\ spans' = spans
     /\ ~thrown'
  \/ \A r \in RequestIds \ DOMAIN activeSpans : (commands'[r] = "idle" /\ now' \in Times) =>
       \A o \in {"succeeded", "failed"}, d \in Durations :
         ~DriverEnded(r, o, d, now')

\* C4: a terminal event whose requestId is not in the table leaves the table
\* and every span as they were, and the handler does not throw.
C4_UnmatchedEndIsNoop == [][C4_Step]_vars

\* every event so far was a terminal event that matched no entry: time has
\* passed, no span was ever granted and no command is in flight
C4_Witness ==
  /\ listeners # {}
  /\ now > 0
  /\ spans = <<>>
  /\ \A r \in RequestIds : commands[r] = "idle"

\* C5: when every command that was started has had its terminal event
\* delivered, the table is empty.
C5_AllMatchedTableEmpty ==
  (\A r \in RequestIds : commands[r] = "idle") => DOMAIN activeSpans = {}

C5_Witness ==
  /\ \A r \in RequestIds : commands[r] = "idle"
  /\ \E i, j \in 1..Len(spans) :
       /\ spans[i].owner.kind = "event"
       /\ spans[j].owner.kind = "event"
       /\ spans[i].owner.id # spans[j].owner.id
       /\ spans[i].ended = 1
       /\ spans[j].ended = 1

C6_State ==
  /\ \A r \in DOMAIN activeSpans :
       /\ activeSpans[r] \in EventSpans(r)
       /\ spans[activeSpans[r]].ended = 0
  /\ \A r1, r2 \in DOMAIN activeSpans : r1 # r2 => activeSpans[r1] # activeSpans[r2]
  /\ Cardinality(DOMAIN activeSpans) =
       Cardinality({r \in RequestIds : commands[r] = "tracked"})

C6_Step ==
  \A r \in DOMAIN activeSpans :
    IF r \in DOMAIN activeSpans'
    THEN /\ activeSpans'[r] = activeSpans[r]
         /\ spans'[activeSpans[r]].ended = 0
    ELSE spans'[activeSpans[r]].ended = 1

C7_Step ==
  \A r \in DOMAIN activeSpans : (commands'[r] = "idle" /\ now' \in Times) =>
    \A o \in {"succeeded", "failed"}, d \in Durations :
      DriverEnded(r, o, d, now') =>
      LET span == activeSpans[r]
      IN /\ spans'[span].ended = spans[span].ended + 1
         /\ spans'[span].endTime = spans[span].start + d * MicrosPerMilli

\* C7: a terminal event that finds a span ends it with the timestamp
\* start + duration (the span's own start, the event's own duration, both in
\* microseconds here), whatever the time at which the event is handled.
C7_EndTimestamp == [][C7_Step]_vars

\* a span ended by its terminal event with a timestamp that is not the time
\* at which the event was handled (the clock never runs backwards)
C7_Witness ==
  \E i \in 1..Len(spans) :
    /\ spans[i].owner.kind = "event"
    /\ spans[i].ended = 1
    /\ spans[i].endTime > now

\* C8: once installed with instrumentation disabled or a version outside
\* '>=3.3 <6.0', no listener is registered, nothing is wrapped, and no span
\* and no wrapped call ever exists, whatever the application calls afterwards.
C8_PassThrough ==
  (installed /\ (~opts.enabled \/ ~InRange(opts.version))) =>
    /\ listeners = {}
    /\ ~dbWrapped
    /\ wrappedCollection = {}
    /\ spans = <<>>
    /\ calls = <<>>
    /\ activeSpans = <<>>

\* version 2.9.0, enabled, installed: the application's calls reach the
\* driver's own methods
C8_Witness ==
  /\ installed
  /\ opts.enabled
  /\ opts.version = <<2, 9, 0>>
  /\ opts.mongodb.MongoClient
  /\ ENABLED (\E m \in CalledMethods : DirectCall(m))
  /\ spans = <<>>

\* C9: after installation never both listeners and the wrapped db accessor;
\* enabled and in range, a driver with instrument() gets the listeners and no
\* wrapped accessor (client constructor or not), a driver with only the
\* client constructor gets the wrapped accessor and no listener, and any
\* other driver gets a warning and neither.
C9_OneStrategy ==
  installed =>
    /\ ~(listeners # {} /\ dbWrapped)
    /\ ("warn" \in logged) => (listeners = {} /\ ~dbWrapped)
    /\ (opts.enabled /\ InRange(opts.version)) =>
         /\ opts.mongodb.instrument => (listeners # {} /\ ~dbWrapped)
         /\ (~opts.mongodb.instrument /\ opts.mongodb.MongoClient) =>
              (listeners = {} /\ dbWrapped)
         /\ (~opts.mongodb.instrument /\ ~opts.mongodb.MongoClient) =>
              (listeners = {} /\ ~dbWrapped /\ "warn" \in logged)

\* a driver with both instrument() and the client constructor, in use
C9_Witness ==
  /\ installed
  /\ opts.mongodb.instrument
  /\ opts.mongodb.MongoClient
  /\ listeners # {}
  /\ ~dbWrapped
  /\ spans # <<>>

C10_State ==
  \A c \in 1..Len(calls) : calls[c].span = 0 =>
    /\ calls[c].origCalls = 1
    /\ calls[c].origThis = "this"
    /\ calls[c].origLast = (IF calls[c].style = "callback" THEN "cb" ELSE "none")
    /\ calls[c].closed = {}
    /\ CallSpans(c) = {}
    /\ calls[c].op = "threw" =>
         (calls[c].ret = "rejected" /\ calls[c].retVal = calls[c].opOut)
    /\ (calls[c].op # "threw" /\ calls[c].style = "callback") =>
         (calls[c].ret = "resolved" /\ calls[c].retVal = "undefined")
    /\ (calls[c].op # "threw" /\ calls[c].style = "promise") =>
         IF calls[c].pc = "done"
         THEN calls[c].ret = calls[c].op /\ calls[c].retVal = calls[c].opOut
         ELSE calls[c].ret = "pending"

C10_Step ==
  \A c \in 1..Len(calls') :
    (calls'[c].span = 0 /\ (c > Len(calls) \/ calls'[c] # calls[c])) => spans' = spans

\* C10: a wrapped call that is refused a span invokes the original once, on
\* the caller's receiver, with the caller's last argument (its callback is
\* not replaced); the promise the caller gets settles as the original's
\* result does; and no step of the call creates or touches a span.
C10_RefusedIsPassThrough == []C10_State /\ [][C10_Step]_vars

\* refused calls in both styles, completed: the caller's own callback was
\* invoked by the driver, and the caller's promise resolved with the result
C10_Witness ==
  /\ \E c \in 1..Len(calls) :
       /\ calls[c].span = 0
       /\ calls[c].style = "callback"
       /\ calls[c].cbCalls = 1
  /\ \E c \in 1..Len(calls) :
       /\ calls[c].span = 0
       /\ calls[c].style = "promise"
       /\ calls[c].ret = "resolved"
       /\ calls[c].retVal \in Results

C11_State ==
  \A r \in RequestIds : commands[r] = "untracked" => r \notin DOMAIN activeSpans

C11_Step ==
  \A r \in RequestIds :
    /\ (commands[r] = "idle" /\ commands'[r] = "untracked") =>
         /\ activeSpans' = activeSpans
         /\ spans' = spans
         /\ logged' = logged
    /\ (commands[r] = "untracked" /\ commands'[r] = "idle") =>
         /\ activeSpans' = activeSpans
         /\ spans' = spans

\* C11: a 'started' event that is refused a span leaves the table, every
\* span (its destination and db context) and the log as they were; while the
\* command is in flight the table has no entry for its requestId; and its
\* terminal event ends no span and removes no entry.
C11_RefusedStartStoresNothing == []C11_State /\ [][C11_Step]_vars

\* a refused command in flight next to a granted one whose span is open in
\* the table, with the terminal event of the refused command deliverable
C11_Witness ==
  \E r, q \in RequestIds :
    /\ commands[r] = "untracked"
    /\ commands[q] = "tracked"
    /\ q \in DOMAIN activeSpans
    /\ spans[activeSpans[q]].ended = 0
    /\ ENABLED DriverEnded(r, "succeeded", 1, now)

\* the name and action the claim gives for a start notification
C12_Label(e) ==
  IF e.commandName \in DOMAIN e.command /\ e.command[e.commandName].t = "string"
  THEN e.command[e.commandName].v
  ELSE "$cmd"

C12_Name(e) == e.databaseName \o "." \o C12_Label(e) \o "." \o e.commandName

C12_Step ==
  (Len(spans') = Len(spans) + 1 /\ spans'[Len(spans')].owner.kind = "event") =>
    \A r \in RequestIds, i \in 1..Len(StartedEvents), t \in Times :
      DriverStarted(r, i, TRUE, t) =>
        LET e == StartedEvents[i]
            s == spans'[Len(spans')]
        IN /\ s.name = C12_Name(e)
           /\ s.action = e.commandName
           /\ s.type = "db"
           /\ s.subtype = "mongodb"
           /\ (e.commandName = "insert" /\ e.command.insert = Str("cats")) =>
                s.name = "test.cats.insert"
           /\ (e.commandName = "ping" /\ e.command.ping = Num(1)) =>
                s.name = "admin.$cmd.ping"

\* C12: the span granted to a 'started' event carries the name
\* databaseName.label.commandName and the action commandName, where label is
\* the value of command[commandName] when it is a string and '$cmd'
\* otherwise: {insert: 'cats'} on test gives 'test.cats.insert', {ping: 1}
\* on admin gives 'admin.$cmd.ping'.
C12_SpanNaming == [][C12_Step]_vars

\* one span named after a collection and one named after the sentinel
C12_Witness ==
  \E i, j \in 1..Len(spans) :
    /\ spans[i].owner.kind = "event"
    /\ spans[j].owner.kind = "event"
    /\ spans[i].name = "test.cats.insert"
    /\ spans[j].name = "admin.$cmd.ping"

C13_Step ==
  \A r \in DOMAIN activeSpans :
    LET span == activeSpans[r]
    IN IF r \in DOMAIN activeSpans'
       THEN /\ activeSpans'[r] = span
            /\ spans'[span] = spans[span]
       ELSE /\ spans[span].owner = [kind |-> "event", id |-> r]
            /\ spans'[span].ended = spans[span].ended + 1
            /\ \E o \in {"succeeded", "failed"}, d \in Durations, t \in Times :
                 /\ spans'[span].endTime = spans[span].start + d * MicrosPerMilli
                 /\ DriverEnded(r, o, d, t)
            /\ \A q \in DOMAIN activeSpans \ {r} : q \in DOMAIN activeSpans'
            /\ \A i \in (1..Len(spans)) \ {span} : spans'[i] = spans[i]

\* C13: with the commands of distinct requestIds interleaved in any order,
\* the step that removes the entry of r is a terminal event of r; it ends the
\* span that the 'started' event of r was granted, once, at that span's start
\* plus the duration of that event; every other entry stays in the table with
\* its span, and no other span changes.
C13_InterleavedCorrelation == [][C13_Step]_vars

\* two commands in flight at once and ended out of order: the span created
\* later was ended with its own 3 ms while the span of the other requestId,
\* created first, is still open in the table
C13_Witness ==
  \E i, j \in 1..Len(spans) :
    /\ i < j
    /\ spans[i].owner.kind = "event"
    /\ spans[j].owner.kind = "event"
    /\ spans[i].owner.id # spans[j].owner.id
    /\ spans[i].start = spans[j].start
    /\ spans[j].ended = 1
    /\ spans[j].endTime = spans[j].start + 3 * MicrosPerMilli
    /\ spans[i].ended = 0
    /\ MapHas(activeSpans, spans[i].owner.id)
    /\ activeSpans[spans[i].owner.id] = i

\* C14: in no state has the promise that a wrapped call returned to its
\* caller settled (resolved or rejected) while the span granted to that call
\* has not been ended.
C14_SpanWithinCall ==
  \A c \in 1..Len(calls) :
    (calls[c].span # 0 /\ calls[c].ret # "pending") => spans[calls[c].span].ended >= 1

C15_State ==
  \A c \in 1..Len(calls) : (calls[c].style = "callback" /\ calls[c].span # 0) =>
    /\ calls[c].origLast = "wrapper"
    /\ ~calls[c].cbOpen
    /\ calls[c].cbCalls > 0 => spans[calls[c].span].ended >= 1

C15_Step ==
  \A c \in 1..Len(calls) :
    (calls[c].span # 0 /\ calls'[c].cbCalls = calls[c].cbCalls + 1) =>
      /\ spans'[calls[c].span].ended = spans[calls[c].span].ended + 1
      /\ ~calls'[c].cbOpen
      /\ \E a \in CallbackArgs :
           /\ DriverCallback(c, a)
           /\ calls'[c].cbArgs = a

\* C15: a callback-style call that is granted a span hands the original
\* operation the substituted function; each time the driver invokes it, end()
\* is invoked on the span and then the caller's callback receives exactly the
\* arguments the driver supplied, error included; the caller's callback is
\* never invoked while the span is open.
C15_EndBeforeCallback == []C15_State /\ [][C15_Step]_vars

\* the driver reported an error through the callback of a call with a span
C15_Witness ==
  \E c \in 1..Len(calls) :
    /\ calls[c].style = "callback"
    /\ calls[c].span # 0
    /\ calls[c].cbCalls = 1
    /\ calls[c].cbArgs.err \in Errors
    /\ spans[calls[c].span].ended = 1

\* the destination token the claim gives for a start notification
C16_Token(e) == IF e.address.t # "undefined" THEN e.address ELSE e.connectionId

\* a string of the shape host:port, the port made of digits
C16_IsHostPort(s) ==
  \E i \in 2..(Len(s) - 1) :
    /\ s[i] = ":"
    /\ \A j \in (i + 1)..Len(s) : s[j] \in Digits

C16_Step ==
  /\ (Len(spans') = Len(spans) + 1 /\ spans'[Len(spans')].owner.kind = "event") =>
       \A r \in RequestIds, i \in 1..Len(StartedEvents), t \in Times :
         DriverStarted(r, i, TRUE, t) =>
           LET e == StartedEvents[i]
               token == C16_Token(e)
               s == spans'[Len(spans')]
           IN /\ s.destination.set = (token.t = "string" /\ C16_IsHostPort(token.v))
              /\ s.destination.set =>
                   /\ s.destination.host \o <<":">> \o s.destination.port = token.v
                   /\ \A k \in 1..Len(s.destination.port) : s.destination.port[k] \in Digits
              /\ ("trace" \in logged' \ logged) => ~s.destination.set
              /\ s.db = [set |-> TRUE, type |-> "mongodb", instance |-> e.databaseName]
              /\ MapHas(activeSpans', r)
              /\ activeSpans'[r] = Len(spans')
              /\ s.ended = 0
  /\ \A r \in DOMAIN activeSpans :
       (commands[r] = "tracked" /\ commands'[r] = "idle") =>
         /\ ~MapHas(activeSpans', r)
         /\ spans'[activeSpans[r]].ended = 1
         /\ spans'[activeSpans[r]].destination = spans[activeSpans[r]].destination
         /\ spans'[activeSpans[r]].db = spans[activeSpans[r]].db

\* C16: for a 'started' event that is granted a span the destination token
\* is event.address when the event has one and event.connectionId otherwise;
\* the span gets a destination context exactly when the token is a string of
\* the shape host:port, and then host and port are the two sides of the
\* token's last colon; resolved or not, the span gets the db context
\* {type 'mongodb', instance databaseName}, is stored under the requestId
\* open, and the terminal event of the command ends it.
C16_DestinationNonFatal == [][C16_Step]_vars

\* a span whose address did not resolve, with its db context, ended by its
\* terminal event; and a span whose destination came from the connectionId
C16_Witness ==
  /\ \E i \in 1..Len(spans) :
       /\ spans[i].owner.kind = "event"
       /\ ~spans[i].destination.set
       /\ spans[i].db.set
       /\ spans[i].ended = 1
  /\ \E j \in 1..Len(spans) :
       /\ spans[j].owner.kind = "event"
       /\ spans[j].destination.set
       /\ spans[j].destination.host = <<":", ":", "1">>
       /\ spans[j].db.set

C17_Step ==
  \A r \in DOMAIN activeSpans :
    LET span == activeSpans[r]
    IN \/ /\ r \in DOMAIN activeSpans'
          /\ activeSpans'[r] = span
          /\ spans'[span] = spans[span]
          /\ spans'[span].ended = 0
       \/ /\ now' \in Times
          /\ \E o \in {"succeeded", "failed"}, d \in Durations : DriverEnded(r, o, d, now')

C18_NoOrphanedSpans ==
  \A i \in 1..Len(spans) : spans[i].owner.kind = "event" =>
    \/ spans[i].ended >= 1
    \/ \E r \in DOMAIN activeSpans : activeSpans[r] = i

C19_State ==
  /\ \A c \in 1..Len(calls) : calls[c].span # 0 =>
       /\ spans[calls[c].span].owner = [kind |-> "call", id |-> c]
       /\ spans[calls[c].span].ended <= 1
       /\ CallOver(c) => spans[calls[c].span].ended = 1
  /\ \A c, d \in 1..Len(calls) :
       (c # d /\ calls[c].span # 0) => calls[c].span # calls[d].span

\* a step that touches the span of call c is a step of call c and of no other
C19_Step ==
  \A c \in 1..Len(calls) :
    (calls[c].span # 0 /\ spans'[calls[c].span] # spans[calls[c].span]) =>
      /\ calls'[c] # calls[c]
      /\ \A d \in (1..Len(calls)) \ {c} : calls'[d] = calls[d]

\* C19: with several wrapped calls in flight on one collection handle, in
\* either style and completing in any order, each call has a span of its
\* own; only a step of that call touches it; it is never ended twice; and
\* once the call is over it has been ended exactly once.
C19_OverlappingCallsIndependent == []C19_State /\ [][C19_Step]_vars

C20_State ==
  \A c \in 1..Len(calls) :
    /\ calls[c].origCalls = 1
    /\ calls[c].origThis = "this"
    /\ calls[c].style = "promise" =>
         /\ calls[c].origLast = "none"
         /\ calls[c].op = "pending" => calls[c].ret = "pending"
         /\ calls[c].ret = "resolved" =>
              (calls[c].op = "resolved" /\ calls[c].retVal = calls[c].opOut)
         /\ calls[c].ret = "rejected" =>
              (calls[c].op \in {"rejected", "threw"} /\ calls[c].retVal = calls[c].opOut)
    /\ calls[c].style = "callback" =>
         calls[c].origLast = (IF calls[c].span # 0 THEN "wrapper" ELSE "cb")

C20_Step ==
  \A c \in 1..Len(calls) :
    (calls[c].style = "promise" /\ calls[c].ret = "pending" /\ calls'[c].ret # "pending") =>
      /\ calls[c].op \in {"resolved", "rejected"}
      /\ calls'[c].ret = calls[c].op
      /\ calls'[c].retVal = calls[c].opOut
      /\ calls'[c].retVal \in Results \cup Errors

\* C20: every wrapped call, with or without a span and in either style,
\* invokes the original operation once on the caller's receiver; the last
\* argument it passes is the caller's own unless it is a function and a span
\* was granted, and then it is the substituted function; in promise style
\* the caller's promise stays pending while the operation is pending, and
\* resolves with the operation's result or rejects with the operation's
\* error.
C20_WrapperTransparent == []C20_State /\ [][C20_Step]_vars

\* with spans granted: a promise-style call resolved with the operation's
\* result, and a callback-style call whose substituted function the driver
\* has invoked
C20_Witness ==
  /\ \E c \in 1..Len(calls) :
       /\ calls[c].span # 0
       /\ calls[c].style = "promise"
       /\ calls[c].ret = "resolved"
       /\ calls[c].retVal \in Results
  /\ \E c \in 1..Len(calls) :
       /\ calls[c].span # 0
       /\ calls[c].style = "callback"
       /\ calls[c].origLast = "wrapper"
       /\ calls[c].cbCalls = 1
====
